---------------------------- MODULE Spec2Model ----------------------------
(***************************************************************************)
(* sales-bonus: the seller report pipeline analyzeSalesData and its two    *)
(* reference strategies, as they are written in src/src/main.js ("main")   *)
(* and in src/unnamed/part_000 ("part").  Both files define the same three *)
(* functions; the variable impl says which file's text is running.         *)
(*                                                                         *)
(* Numbers.  Money is counted in millionths of the currency unit (Cent is  *)
(* 0.01), so that every product, discount and bonus percentage of the      *)
(* inputs used here is an exact integer.  The JavaScript value NaN and the *)
(* string that `function + number` yields are two reserved values.         *)
(***************************************************************************)
EXTENDS Integers, Sequences, FiniteSets, TLC

\* ------------------------------------------------------------------ bounds
MaxSellers == 3
MaxRecords == 2
MaxItems == 2
MaxTotal == 6

\* ------------------------------------------------------- JavaScript values
Cent == 10000
\* NaN: the value of `undefined * quantity`; never a member of the inputs.
NaN == -1000000000
\* The string produced by `products_sold[sku] += quantity` when the slot read
\* is a function inherited from Object.prototype ("function Object() {...}1").
FnString == -999999999

IsNum(x) == x # NaN /\ x # FnString

\* x + y, x - y, x * y where x and y are numbers or NaN (the operands of - in
\* a comparator may be strings, which convert to NaN); + on a string is
\* PlusAssign
NumAdd(x, y) == IF IsNum(x) /\ IsNum(y) THEN x + y ELSE NaN
NumSub(x, y) == IF IsNum(x) /\ IsNum(y) THEN x - y ELSE NaN
NumMul(x, y) == IF IsNum(x) /\ IsNum(y) THEN x * y ELSE NaN

\* slot += quantity where the slot may already hold a string
PlusAssign(x, q) == IF x = FnString THEN FnString ELSE NumAdd(x, q)

Abs(x) == IF x < 0 THEN 0 - x ELSE x

\* +x.toFixed(2): the integer n with n/100 closest to |x|, the larger n of
\* two, with the sign of x put back; NaN.toFixed(2) is "NaN".
ToFixed2(x) ==
  IF ~IsNum(x) THEN NaN
  ELSE LET n == (Abs(x) + (Cent \div 2)) \div Cent
       IN IF x < 0 THEN 0 - (n * Cent) ELSE n * Cent

\* Property names every plain object inherits from Object.prototype: a lookup
\* obj[key] with such a key yields a function, which is truthy.
ObjectPrototypeKeys == {"constructor"}

\* ------------------------------------------------------------------ inputs
IdNames == <<"seller_1", "seller_2", "seller_3", "seller_4", "seller_5">>

AllSellers ==
  [i \in 1..MaxSellers |->
     [id |-> IdNames[i], first_name |-> "First", last_name |-> IdNames[i]]]

Catalogue ==
  << [sku |-> "SKU_001", purchase_price |-> 1000000],
     [sku |-> "SKU_002", purchase_price |-> 3500000] >>

RecordSellerIds ==
  {IdNames[i] : i \in 1..MaxSellers} \cup {"seller_404"} \cup ObjectPrototypeKeys

ItemSkus == {"SKU_001", "SKU_002", "SKU_404"} \cup ObjectPrototypeKeys

Items ==
  { [sku |-> s, quantity |-> 1, sale_price |-> 2990000, discount |-> 0] : s \in ItemSkus }
  \cup { [sku |-> "SKU_001", quantity |-> 2, sale_price |-> 2990000, discount |-> 15] }

\* total_amount of the k-th record of purchase_records: 4.00, 5.01, 6.02, ...
TotalAmountAt(k) == 2990000 + (k * 1010000)

\* The elements of purchase_records and of a record's items are drawn as the
\* two forEach loops visit them, and each loop ends when its array does.  The
\* dataset holds at most MaxRecords records and at most MaxItems items in all.
RecordsAt(k) ==
  { [seller_id |-> s, total_amount |-> TotalAmountAt(k)] : s \in RecordSellerIds }

\* data: absent, or an object whose three fields are arrays or not; of
\* purchase_records it keeps whether the array is empty.
ValidData ==
  { [present |-> TRUE, sellers |-> SubSeq(AllSellers, 1, n), sellersIsArray |-> TRUE,
     products |-> Catalogue, productsIsArray |-> TRUE,
     recordsEmpty |-> FALSE, recordsIsArray |-> TRUE] : n \in 1..MaxSellers }

BaseData == CHOOSE d \in ValidData : Len(d.sellers) = 1

InvalidData ==
  { [BaseData EXCEPT !.present = FALSE],
    [BaseData EXCEPT !.sellers = <<>>],
    [BaseData EXCEPT !.sellers = <<>>, !.sellersIsArray = FALSE],
    [BaseData EXCEPT !.products = <<>>],
    [BaseData EXCEPT !.products = <<>>, !.productsIsArray = FALSE],
    [BaseData EXCEPT !.recordsEmpty = TRUE],
    [BaseData EXCEPT !.recordsEmpty = TRUE, !.recordsIsArray = FALSE] }

\* A strategy slot of options: undefined, a truthy value that is not a function
\* (42), or one of two functions.
RevenueFunctions == {"calculateSimpleRevenue", "grossRevenue"}
BonusFunctions == {"calculateBonusByProfit", "flatBonus"}

\* options: undefined, a truthy non-object (the number 5), or an object.
\* Destructuring a number yields undefined for both slots.
OptionValues ==
  { [kind |-> "undefined", calculateRevenue |-> "undefined", calculateBonus |-> "undefined"],
    [kind |-> "number", calculateRevenue |-> "undefined", calculateBonus |-> "undefined"] }
  \cup
  { [kind |-> "object", calculateRevenue |-> rb[1], calculateBonus |-> rb[2]] :
      rb \in { <<"calculateSimpleRevenue", "calculateBonusByProfit">>,
               <<"grossRevenue", "flatBonus">>,
               <<"undefined", "calculateBonusByProfit">>,
               <<"calculateSimpleRevenue", "undefined">>,
               <<"notAFunction", "calculateBonusByProfit">>,
               <<"calculateSimpleRevenue", "notAFunction">> } }

\* ------------------------------------------------------------------- state
VARIABLES
  impl,         \* which source file runs: "main" or "part"
  data,         \* first argument of analyzeSalesData
  options,      \* second argument of analyzeSalesData
  pc,           \* position in analyzeSalesData (or in the strategy call)
  error,        \* the error thrown, "none" while none
  sellerStats,  \* the array of per-seller accumulators
  recIdx,       \* how many purchase records forEach has visited
  record,       \* the record whose callback is running
  seller,       \* sellerIndex[record.seller_id]: a position in sellerStats,
                \* 0 for undefined, -1 for an inherited function object
  itemCount,    \* how many items the inner forEach calls have visited in all
  item,         \* the item of record visited last
  report,       \* the returned array
  matched,      \* history: records visited whose seller_id is a seller's id
  billed,       \* history: per seller id, the total_amount of its records
  sold,         \* history: per seller id and catalogue sku, quantity in items
  bonusCall,    \* arguments of a direct call of calculateBonusByProfit
  bonusResult   \* what that call returned

vars ==
  << impl, data, options, pc, error, sellerStats, recIdx, record, seller,
     itemCount, item, report, matched, billed, sold, bonusCall, bonusResult >>

NoRecord == [seller_id |-> "", total_amount |-> 0]
NoItem == [sku |-> "", quantity |-> 0, sale_price |-> 0, discount |-> 0]
NoCall == [index |-> 0, total |-> 0, profit |-> 0]

SellerIds == {data.sellers[i].id : i \in 1..Len(data.sellers)}
CatalogueSkus == {Catalogue[i].sku : i \in 1..Len(Catalogue)}

\* -------------------------------------------------------------- strategies
\* calculateSimpleRevenue(purchase, _product)
calculateSimpleRevenue(purchase) ==
  (purchase.sale_price * purchase.quantity * (100 - purchase.discount)) \div 100

\* A caller's own revenue strategy: the undiscounted amount.
grossRevenue(purchase) == purchase.sale_price * purchase.quantity

CallRevenue(fn, purchase) ==
  IF fn = "calculateSimpleRevenue" THEN calculateSimpleRevenue(purchase)
  ELSE grossRevenue(purchase)

\* Mutant of calculateBonusByProfitMain: the last rank is tested first
calculateBonusLastFirst(index, total, profit) ==
  LET pct == IF index = total - 1 THEN 0
             ELSE IF index = 0 THEN 15
             ELSE IF index = 1 \/ index = 2 THEN 10
             ELSE 5
  IN (profit * pct) \div 100

\* calculateBonusByProfit of main.js: seller.profit * (pct / 100)
calculateBonusByProfitMain(index, total, profit) ==
  LET isFirst == index = 0
      isSecondOrThird == index = 1 \/ index = 2
      isLast == index = total - 1
      pct == IF isFirst THEN 15
             ELSE IF isSecondOrThird THEN 10
             ELSE IF isLast THEN 0
             ELSE 5
  IN IF IsNum(profit) THEN (profit * pct) \div 100 ELSE NaN

\* Mutant of calculateBonusByProfitPart: the last rank is looked for at index
\* total, which no seller has
calculateBonusLastOffByOne(index, total, profit) ==
  IF index = 0 THEN (profit * 15) \div 100
  ELSE IF index = 1 \/ index = 2 THEN (profit * 10) \div 100
  ELSE IF index = total THEN 0
  ELSE (profit * 5) \div 100

\* calculateBonusByProfit of part_000: the last rank returns the literal 0
calculateBonusByProfitPart(index, total, profit) ==
  IF index = 0 THEN (IF IsNum(profit) THEN (profit * 15) \div 100 ELSE NaN)
  ELSE IF index = 1 \/ index = 2 THEN (IF IsNum(profit) THEN (profit * 10) \div 100 ELSE NaN)
  ELSE IF index = total - 1 THEN 0
  ELSE (IF IsNum(profit) THEN (profit * 5) \div 100 ELSE NaN)

calculateBonusByProfit(index, total, profit) ==
  IF impl = "main" THEN calculateBonusByProfitMain(index, total, profit)
  ELSE calculateBonusByProfitPart(index, total, profit)

\* A caller's own bonus strategy: 12.3456 whatever the rank.
flatBonus(index, total, profit) == 12345600

CallBonus(fn, index, total, profit) ==
  IF fn = "calculateBonusByProfit" THEN calculateBonusByProfit(index, total, profit)
  ELSE flatBonus(index, total, profit)

\* -------------------------------------------------------------- validation
\* The first if of analyzeSalesData
InvalidInput(d) ==
  \/ ~d.present
  \/ ~d.sellersIsArray \/ Len(d.sellers) = 0
  \/ ~d.productsIsArray \/ Len(d.products) = 0
  \/ ~d.recordsIsArray \/ d.recordsEmpty

Truthy(v) == v # "undefined"
IsFunction(v) == v \in RevenueFunctions \cup BonusFunctions

\* main.js: if (!options) ...; if (!calculateRevenue || !calculateBonus) ...
ValidateMain(d, o) ==
  IF InvalidInput(d) THEN "InvalidInput"
  ELSE IF o.kind = "undefined" THEN "MissingOptions"
  ELSE IF ~Truthy(o.calculateRevenue) \/ ~Truthy(o.calculateBonus) THEN "MissingStrategy"
  ELSE "none"

\* part_000: typeof options !== 'object'; typeof calculateX !== 'function'
ValidatePart(d, o) ==
  IF InvalidInput(d) THEN "InvalidInput"
  ELSE IF o.kind = "undefined" \/ o.kind # "object" THEN "MissingOptions"
  ELSE IF \/ ~Truthy(o.calculateRevenue) \/ ~Truthy(o.calculateBonus)
          \/ ~IsFunction(o.calculateRevenue) \/ ~IsFunction(o.calculateBonus)
       THEN "MissingStrategy"
  ELSE "none"

Init ==
  /\ impl \in {"main", "part"}
  /\ data \in ValidData \cup InvalidData
  /\ options \in OptionValues
  /\ pc = "validate"
  /\ error = "none"
  /\ sellerStats = <<>>
  /\ recIdx = 0
  /\ record = NoRecord
  /\ seller = 0
  /\ itemCount = 0
  /\ item = NoItem
  /\ report = <<>>
  /\ matched = 0
  /\ billed = [id \in SellerIds |-> 0]
  /\ sold = [id \in SellerIds |-> [s \in CatalogueSkus |-> 0]]
  /\ bonusCall = NoCall
  /\ bonusResult = 0

Validate ==
  /\ pc = "validate"
  /\ LET e == IF impl = "main" THEN ValidateMain(data, options)
              ELSE ValidatePart(data, options)
     IN /\ error' = e
        /\ pc' = IF e = "none" THEN "index" ELSE "threw"
  /\ UNCHANGED << impl, data, options, sellerStats, recIdx, record, seller,
                  itemCount, item, report, matched, billed, sold,
                  bonusCall, bonusResult >>

\* data.sellers.map(...) and the two indexes, which are read through
\* SellerLookup and ProductLookup
NewStats(s) ==
  [id |-> s.id, name |-> s.first_name \o " " \o s.last_name,
   revenue |-> 0, profit |-> 0, sales_count |-> 0, products_sold |-> <<>>,
   bonus |-> 0, top_products |-> <<>>]

BuildIndex ==
  /\ pc = "index"
  /\ sellerStats' = [i \in 1..Len(data.sellers) |-> NewStats(data.sellers[i])]
  /\ pc' = "records"
  /\ UNCHANGED << impl, data, options, error, recIdx, record, seller,
                  itemCount, item, report, matched, billed, sold,
                  bonusCall, bonusResult >>

\* ------------------------------------------------------------- the indexes
\* sellerIndex[id]: the accumulator with that id (its position), a function
\* inherited from Object.prototype (-1), or undefined (0)
SellerLookup(id) ==
  IF \E i \in 1..Len(sellerStats) : sellerStats[i].id = id
  THEN CHOOSE i \in 1..Len(sellerStats) :
         /\ sellerStats[i].id = id
         /\ \A j \in (i + 1)..Len(sellerStats) : sellerStats[j].id # id
  ELSE IF id \in ObjectPrototypeKeys THEN -1
  ELSE 0

\* productIndex[sku], likewise
ProductLookup(sku) ==
  IF \E i \in 1..Len(data.products) : data.products[i].sku = sku
  THEN CHOOSE i \in 1..Len(data.products) :
         /\ data.products[i].sku = sku
         /\ \A j \in (i + 1)..Len(data.products) : data.products[j].sku # sku
  ELSE IF sku \in ObjectPrototypeKeys THEN -1
  ELSE 0

\* product.purchase_price: undefined on an inherited function, and
\* undefined * quantity is NaN
PurchasePrice(p) == IF p > 0 THEN data.products[p].purchase_price ELSE NaN

\* -------------------------------------------------------------- aggregation
\* The record-level statements of the forEach callback, main.js
RecordEffectMain(st, rec) ==
  [st EXCEPT !.sales_count = @ + 1]

\* The record-level statements of the forEach callback, part_000
RecordEffectPart(st, rec) ==
  [st EXCEPT !.sales_count = @ + 1,
             !.revenue = NumAdd(@, rec.total_amount)]

RecordEffect(st, rec) ==
  IF impl = "main" THEN RecordEffectMain(st, rec) ELSE RecordEffectPart(st, rec)

\* if (!products_sold[sku]) products_sold[sku] = 0; products_sold[sku] += q
\* products_sold keeps its keys in insertion order (Object.entries order).
SoldUpdate(ps, sku, q) ==
  IF \E i \in 1..Len(ps) : ps[i].sku = sku
  THEN [i \in 1..Len(ps) |->
          IF ps[i].sku = sku
          THEN [ps[i] EXCEPT !.quantity = PlusAssign(@, q)]
          ELSE ps[i]]
  ELSE IF sku \in ObjectPrototypeKeys
       THEN Append(ps, [sku |-> sku, quantity |-> FnString])
       ELSE Append(ps, [sku |-> sku, quantity |-> 0 + q])

\* The statements of the inner forEach callback after the sku guard, main.js
ItemEffectMain(st, it, p) ==
  LET revenueItem == CallRevenue(options.calculateRevenue, it)
      costItem == NumMul(PurchasePrice(p), it.quantity)
  IN [st EXCEPT !.revenue = NumAdd(@, revenueItem),
                !.profit = NumAdd(@, NumSub(revenueItem, costItem)),
                !.products_sold = SoldUpdate(@, it.sku, it.quantity)]

\* The statements of the inner forEach callback after the sku guard, part_000
ItemEffectPart(st, it, p) ==
  LET cost == NumMul(PurchasePrice(p), it.quantity)
      revenueItem == CallRevenue(options.calculateRevenue, it)
      profitItem == NumSub(revenueItem, cost)
  IN [st EXCEPT !.profit = NumAdd(@, profitItem),
                !.products_sold = SoldUpdate(@, it.sku, it.quantity)]

\* Mutant of ItemEffect: the sale is counted once more for every item
ItemEffectCountingSales(st, it, p) ==
  [(IF impl = "main" THEN ItemEffectMain(st, it, p) ELSE ItemEffectPart(st, it, p))
     EXCEPT !.sales_count = @ + 1]

ItemEffect(st, it, p) ==
  IF impl = "main" THEN ItemEffectMain(st, it, p) ELSE ItemEffectPart(st, it, p)

\* The purchase_records.forEach callback, from its entry to its inner forEach.
\* When the lookup yields an inherited function, sales_count and revenue are
\* written to that function, not to an accumulator.
ProcessRecord(rec) ==
  /\ pc = "records"
  /\ recIdx < MaxRecords
  /\ LET k == SellerLookup(rec.seller_id)
     IN /\ seller' = k
        /\ sellerStats' = IF k > 0
                          THEN [sellerStats EXCEPT ![k] = RecordEffect(@, rec)]
                          ELSE sellerStats
  /\ pc' = "callback"
  /\ record' = rec
  /\ recIdx' = recIdx + 1
  /\ matched' = IF rec.seller_id \in SellerIds THEN matched + 1 ELSE matched
  /\ billed' = IF rec.seller_id \in SellerIds
               THEN [billed EXCEPT ![rec.seller_id] = @ + rec.total_amount]
               ELSE billed
  /\ UNCHANGED << impl, data, options, error, itemCount, item, report,
                  sold, bonusCall, bonusResult >>

\* One call of the record.items.forEach callback.  Calling a value that is not
\* a function, and reading products_sold[sku] of an inherited function (whose
\* products_sold is undefined), throw a TypeError out of analyzeSalesData.
ProcessItem(it) ==
  /\ pc = "callback"
  /\ seller # 0
  /\ itemCount < MaxItems
  /\ item' = it
  /\ itemCount' = itemCount + 1
  /\ sold' = IF record.seller_id \in SellerIds /\ it.sku \in CatalogueSkus
             THEN [sold EXCEPT ![record.seller_id][it.sku] = @ + it.quantity]
             ELSE sold
  /\ LET p == ProductLookup(it.sku)
     IN IF p = 0
        THEN UNCHANGED << pc, sellerStats, error >>
        ELSE IF ~IsFunction(options.calculateRevenue) \/ seller = -1
        THEN /\ pc' = "threw"
             /\ error' = "TypeError"
             /\ UNCHANGED sellerStats
        ELSE /\ sellerStats' = [sellerStats EXCEPT ![seller] = ItemEffect(@, it, p)]
             /\ UNCHANGED << pc, error >>
  /\ UNCHANGED << impl, data, options, recIdx, record, seller, report,
                  matched, billed, bonusCall, bonusResult >>

\* The callback returns: at once when the seller is undefined, else when the
\* record has no further item
ReturnRecord ==
  /\ pc = "callback"
  /\ pc' = "records"
  /\ record' = NoRecord
  /\ seller' = 0
  /\ item' = NoItem
  /\ UNCHANGED << impl, data, options, error, sellerStats, recIdx, itemCount,
                  report, matched, billed, sold, bonusCall, bonusResult >>

\* ------------------------------------------------------------------ sorting
\* The comparator (a, b) => b.key - a.key as Array.prototype.sort reads it: a
\* NaN result counts as +0
CompareDesc(a, b) ==
  LET v == NumSub(b, a) IN IF v = NaN THEN 0 ELSE v

\* The comparator orders the keys consistently unless a key that is not a number
\* (which it calls equal to every key) meets two numbers that differ.
ConsistentKeys(keys) ==
  \/ \A i \in 1..Len(keys) : IsNum(keys[i])
  \/ \A i, j \in 1..Len(keys) : (IsNum(keys[i]) /\ IsNum(keys[j])) => keys[i] = keys[j]

InsertStable(sorted, x, keys) ==
  LET pos == Cardinality({j \in 1..Len(sorted) : CompareDesc(keys[sorted[j]], keys[x]) <= 0})
  IN SubSeq(sorted, 1, pos) \o <<x>> \o SubSeq(sorted, pos + 1, Len(sorted))

RECURSIVE StableOrder(_, _)
\* The positions 1..n of keys in the order a stable sort with CompareDesc gives
StableOrder(keys, n) ==
  IF n = 0 THEN <<>> ELSE InsertStable(StableOrder(keys, n - 1), n, keys)

Orderings(n) ==
  {f \in [1..n -> 1..n] : \A i, j \in 1..n : f[i] = f[j] => i = j}

\* Array.prototype.sort: stable; with an inconsistent comparator the order is
\* implementation-defined, so any permutation
SortOrders(keys) ==
  IF ConsistentKeys(keys) THEN {StableOrder(keys, Len(keys))}
  ELSE Orderings(Len(keys))

\* sellerStats.sort((a, b) => b.profit - a.profit), once forEach has visited
\* the whole (non-empty) purchase_records
SortSellers ==
  /\ pc = "records"
  /\ recIdx >= 1
  /\ \E order \in SortOrders([i \in 1..Len(sellerStats) |-> sellerStats[i].profit]) :
       sellerStats' = [i \in 1..Len(sellerStats) |-> sellerStats[order[i]]]
  /\ pc' = "bonus"
  /\ UNCHANGED << impl, data, options, error, recIdx, record, seller, itemCount,
                  item, report, matched, billed, sold, bonusCall,
                  bonusResult >>

\* ------------------------------------------------------ bonuses and the report
TopN == 10

Take(s, n) == SubSeq(s, 1, IF Len(s) < n THEN Len(s) ELSE n)

\* Object.entries(products_sold).map(...).sort((a, b) => b.quantity - a.quantity)
\* .slice(0, 10): every list the sort may give
TopProducts(ps) ==
  { Take([i \in 1..Len(ps) |-> [sku |-> ps[order[i]].sku, quantity |-> ps[order[i]].quantity]],
         TopN) :
      order \in SortOrders([i \in 1..Len(ps) |-> ps[i].quantity]) }

\* seller.bonus = calculateBonus(...), main.js
BonusValueMain(raw) == raw

\* seller.bonus = +rawBonus.toFixed(2), part_000
BonusValuePart(raw) == ToFixed2(raw)

BonusValue(raw) == IF impl = "main" THEN BonusValueMain(raw) ELSE BonusValuePart(raw)

RECURSIVE TopProductsOfAll(_, _)
\* One list of TopProducts for each of the first n accumulators, in every way
TopProductsOfAll(stats, n) ==
  IF n = 0 THEN {<<>>}
  ELSE { Append(tops, t) : tops \in TopProductsOfAll(stats, n - 1),
                           t \in TopProducts(stats[n].products_sold) }

\* What the sellerStats.forEach callback leaves in the accumulator at index
WithBonus(st, index, total, top) ==
  [st EXCEPT !.bonus = BonusValue(CallBonus(options.calculateBonus, index, total, st.profit)),
             !.top_products = top]

\* sellerStats.forEach((seller, index) => ...); the first call of a
\* calculateBonus that is not a function throws a TypeError
AssignBonuses ==
  /\ pc = "bonus"
  /\ IF ~IsFunction(options.calculateBonus)
     THEN /\ pc' = "threw"
          /\ error' = "TypeError"
          /\ UNCHANGED sellerStats
     ELSE LET n == Len(sellerStats)
          IN /\ \E top \in TopProductsOfAll(sellerStats, n) :
                  sellerStats' =
                    [i \in 1..n |-> WithBonus(sellerStats[i], i - 1, n, top[i])]
             /\ pc' = "report"
             /\ UNCHANGED error
  /\ UNCHANGED << impl, data, options, recIdx, record, seller, itemCount, item,
                  report, matched, billed, sold, bonusCall, bonusResult >>

ReportEntry(s) ==
  [seller_id |-> s.id, name |-> s.name,
   revenue |-> ToFixed2(s.revenue), profit |-> ToFixed2(s.profit),
   sales_count |-> s.sales_count, top_products |-> s.top_products,
   bonus |-> ToFixed2(s.bonus)]

RECURSIVE ActiveOnly(_)
ActiveOnly(stats) ==
  IF stats = <<>> THEN <<>>
  ELSE IF Head(stats).sales_count = 0 THEN ActiveOnly(Tail(stats))
  ELSE <<ReportEntry(Head(stats))>> \o ActiveOnly(Tail(stats))

\* Mutant of ReportOf: sellers without a sale are left out of the report
ReportOfActive(stats) == ActiveOnly(stats)

\* sellerStats.map(s => ({...}))
ReportOf(stats) == [i \in 1..Len(stats) |-> ReportEntry(stats[i])]

\* return sellerStats.map(...)
BuildReport ==
  /\ pc = "report"
  /\ report' = ReportOf(sellerStats)
  /\ pc' = "done"
  /\ UNCHANGED << impl, data, options, error, sellerStats, recIdx, record, seller,
                  itemCount, item, matched, billed, sold, bonusCall,
                  bonusResult >>

Next ==
  \/ Validate
  \/ BuildIndex
  \/ \E rec \in RecordsAt(recIdx + 1) : ProcessRecord(rec)
  \/ \E it \in Items : ProcessItem(it)
  \/ ReturnRecord
  \/ SortSellers
  \/ AssignBonuses
  \/ BuildReport

Spec == Init /\ [][Next]_vars

\* ------------------------------------- calculateBonusByProfit called directly
Profits == {-1917000, -510000, 0, 1990000, 3083000, 100000000}

BonusCalls ==
  { [index |-> i, total |-> t, profit |-> p] :
      t \in 1..MaxTotal, i \in 0..(MaxTotal - 1), p \in Profits }

InitBonus ==
  /\ impl \in {"main", "part"}
  /\ data = BaseData
  /\ options = [kind |-> "object", calculateRevenue |-> "calculateSimpleRevenue",
                calculateBonus |-> "calculateBonusByProfit"]
  /\ pc = "call"
  /\ error = "none"
  /\ sellerStats = <<>>
  /\ recIdx = 0
  /\ record = NoRecord
  /\ seller = 0
  /\ itemCount = 0
  /\ item = NoItem
  /\ report = <<>>
  /\ matched = 0
  /\ billed = [id \in SellerIds |-> 0]
  /\ sold = [id \in SellerIds |-> [s \in CatalogueSkus |-> 0]]
  /\ bonusCall \in {c \in BonusCalls : c.index < c.total}
  /\ bonusResult = 0

CallBonusByProfit ==
  /\ pc = "call"
  /\ bonusResult' = calculateBonusByProfit(bonusCall.index, bonusCall.total, bonusCall.profit)
  /\ pc' = "returned"
  /\ UNCHANGED << impl, data, options, error, sellerStats, recIdx, record, seller,
                  itemCount, item, report, matched, billed, sold, bonusCall >>

NextBonus == CallBonusByProfit

SpecBonus == InitBonus /\ [][NextBonus]_vars

\* ---------------------------------------------------------------- the claims
RECURSIVE SumSalesCount(_)
SumSalesCount(entries) ==
  IF entries = <<>> THEN 0 ELSE Head(entries).sales_count + SumSalesCount(Tail(entries))

\* a >= b as JavaScript compares: false when either side is NaN
NumGeq(a, b) == IsNum(a) /\ IsNum(b) /\ a >= b

\* a === b on numbers: NaN equals nothing
NumEq(a, b) == IsNum(a) /\ IsNum(b) /\ a = b

OriginalPosition(id) == CHOOSE i \in 1..Len(data.sellers) : data.sellers[i].id = id

StrategiesAreFunctions ==
  /\ options.kind = "object"
  /\ IsFunction(options.calculateRevenue)
  /\ IsFunction(options.calculateBonus)

\* C1: in the returned report every seller's revenue is the (rounded) sum of
\* total_amount over the records whose seller_id is that seller's id, whatever
\* the items and the revenue strategy.
C1_RevenueIsBilledTotal ==
  pc = "done" =>
    \A i \in 1..Len(report) : report[i].revenue = ToFixed2(billed[report[i].seller_id])

\* C2: a returned report has one entry per element of data.sellers: the same
\* length, and every seller's id in exactly one entry.
C2_OneEntryPerSeller ==
  pc = "done" =>
    /\ Len(report) = Len(data.sellers)
    /\ \A i \in 1..Len(data.sellers) :
         Cardinality({j \in 1..Len(report) : report[j].seller_id = data.sellers[i].id}) = 1

\* C2 witness: a three-seller report in another order than data.sellers, with a
\* seller no record referenced
C2_Witness ==
  /\ pc = "done"
  /\ Len(report) = 3
  /\ report[1].seller_id # data.sellers[1].id
  /\ \E j \in 1..3 : report[j].sales_count = 0
  /\ \E j \in 1..3 : report[j].sales_count > 0

\* C3 as claimed: for every total >= 2 the reference strategy gives the seller at
\* index total - 1 a bonus of 0.
C3_LastRankZeroFromTwo ==
  (pc = "returned" /\ bonusCall.total >= 2 /\ bonusCall.index = bonusCall.total - 1)
    => bonusResult = 0

\* C3 as amended: the seller at index total - 1 gets 0 exactly from total = 4 on;
\* with total = 1 the rank-0 rule gives 15%, with total = 2 or 3 the last index
\* is 1 or 2 and the rank 1-2 rule gives 10%.
C3_LastRankZeroFromFour ==
  (pc = "returned" /\ bonusCall.index = bonusCall.total - 1) =>
    /\ bonusCall.total >= 4 => bonusResult = 0
    /\ bonusCall.total \in {2, 3} => bonusResult * 100 = bonusCall.profit * 10
    /\ bonusCall.total = 1 => bonusResult * 100 = bonusCall.profit * 15

\* C3 witness: a last rank of four or more sellers with a profit, paid nothing
C3_Witness ==
  /\ pc = "returned"
  /\ bonusCall.total >= 4
  /\ bonusCall.index = bonusCall.total - 1
  /\ bonusCall.profit > 0
  /\ bonusResult = 0

\* The percentage the claim's first-match table gives rank index of total
ClaimedPct(index, total) ==
  CASE index = 0 -> 15
    [] index # 0 /\ index \in {1, 2} -> 10
    [] index \notin {0, 1, 2} /\ index = total - 1 -> 0
    [] OTHER -> 5

\* C4: the reference strategy returns profit times the fraction of the first
\* matching rank rule (0: 0.15; 1 or 2: 0.10; total - 1: 0; else 0.05); so
\* total = 1 gives 0.15 and total = 4 gives 0.15, 0.10, 0.10, 0.
C4_FirstMatchFraction ==
  pc = "returned" =>
    /\ bonusResult * 100 = bonusCall.profit * ClaimedPct(bonusCall.index, bonusCall.total)
    /\ bonusCall.total = 1 => bonusResult * 100 = bonusCall.profit * 15
    /\ bonusCall.total = 4 =>
         bonusResult * 100 = bonusCall.profit * <<15, 10, 10, 0>>[bonusCall.index + 1]

\* C4 witness: a middle rank (neither 0, 1, 2 nor last) paid 5% of a profit
C4_Witness ==
  /\ pc = "returned"
  /\ bonusCall.total = 5
  /\ bonusCall.index = 3
  /\ bonusCall.profit > 0
  /\ bonusResult * 100 = bonusCall.profit * 5

\* C5: with a valid dataset and an options object one of whose strategies is
\* absent or not a function, analyzeSalesData ends in validation with
\* MissingStrategy: no accumulator is ever created and no strategy is called.
C5_MissingStrategyInValidation ==
  ( /\ ~InvalidInput(data)
    /\ options.kind = "object"
    /\ ~IsFunction(options.calculateRevenue) \/ ~IsFunction(options.calculateBonus)
    /\ pc # "validate" )
    => (pc = "threw" /\ error = "MissingStrategy" /\ sellerStats = <<>>)

\* C6: with a valid dataset and options that are absent or not an object (a
\* number), analyzeSalesData fails with MissingOptions and nothing else.
C6_MissingOptions ==
  (~InvalidInput(data) /\ options.kind # "object" /\ pc # "validate")
    => (pc = "threw" /\ error = "MissingOptions")

\* C7: the returned report is in descending order of profit, and sellers whose
\* profits were equal when sorted are in the order of data.sellers.
C7_SortedByProfitStable ==
  pc = "done" =>
    /\ \A i \in 1..(Len(report) - 1) : NumGeq(report[i].profit, report[i + 1].profit)
    /\ \A i, j \in 1..Len(sellerStats) :
         (i < j /\ NumEq(sellerStats[i].profit, sellerStats[j].profit))
           => OriginalPosition(sellerStats[i].id) < OriginalPosition(sellerStats[j].id)

\* C8: (with strategies that are functions) a record whose seller_id is no
\* seller's id changes no accumulator, neither when its callback starts nor
\* while it runs, and does not throw; an item whose sku is no product's sku
\* changes no accumulator and does not throw.
C8_UnknownIdsAreSkipped ==
  [][ StrategiesAreFunctions =>
        /\ (pc = "records" /\ pc' = "callback" /\ record'.seller_id \notin SellerIds)
             => sellerStats' = sellerStats
        /\ (pc = "callback" /\ record.seller_id \notin SellerIds)
             => (sellerStats' = sellerStats /\ pc' # "threw")
        /\ (pc = "callback" /\ itemCount' = itemCount + 1 /\ item'.sku \notin CatalogueSkus)
             => (sellerStats' = sellerStats /\ pc' # "threw") ]_vars

\* C9: after every prefix of purchase_records (and at every step within a
\* callback) the sales_count of all accumulators sum to the number of records
\* visited whose seller_id is a seller's id; so do those of a returned report.
C9_SalesCountSum ==
  /\ SumSalesCount(sellerStats) = matched
  /\ pc = "done" => SumSalesCount(report) = matched

\* C9 witness: a report after two records of known sellers, one of them with
\* two items, the other with none
C9_Witness ==
  /\ pc = "done"
  /\ matched = 2
  /\ itemCount = 2
  /\ \E i \in 1..Len(report) :
       report[i].sales_count = 1 /\ report[i].top_products = <<>>
  /\ SumSalesCount(report) = 2

\* C10: in a returned report every top_products has at most 10 entries in
\* descending order of quantity, each a sku the seller sold with the sum of its
\* item quantities, and no sku left out was sold in a larger quantity than a
\* listed one (none is left out of a list shorter than 10).
C10_TopProducts ==
  pc = "done" =>
    \A i \in 1..Len(report) :
      LET top == report[i].top_products
          id == report[i].seller_id
          listed == {top[k].sku : k \in 1..Len(top)}
      IN /\ Len(top) <= TopN
         /\ \A k \in 1..(Len(top) - 1) : NumGeq(top[k].quantity, top[k + 1].quantity)
         /\ \A k \in 1..Len(top) :
              /\ top[k].sku \in CatalogueSkus
              /\ sold[id][top[k].sku] > 0
              /\ top[k].quantity = sold[id][top[k].sku]
         /\ \A s \in CatalogueSkus \ listed :
              sold[id][s] > 0 =>
                /\ Len(top) = TopN
                /\ \A k \in 1..Len(top) : sold[id][s] <= top[k].quantity
=============================================================================
